---- MODULE Spec2Model ----
(***************************************************************************)
(* Emotion-aware response pipeline of the Sadeem chatbot backend.          *)
(*                                                                         *)
(* EmotionDetector (backend/emotion_detector.py): local 7-class            *)
(* classifier remapped to 5 emotions, Gemini fallback gated by a           *)
(* confidence threshold, default Neutral result.                           *)
(* ResponseGenerator.generate (backend/app.py): one remote call that       *)
(* reports emotion, confidence and the answer, and its line parser.        *)
(* EmotionResponseAdapter (backend/emotion_response_adapter.py): remote    *)
(* rewrite of an answer, fixed enhancements, per-session frustration count.*)
(* AnalyticsLogger (backend/analytics_logger.py): JSON-lines log file and   *)
(* the read of its most recent entries.                                    *)
(*                                                                         *)
(* Numbers: Python floats are modelled as exact rationals n/d in lowest    *)
(* terms plus the three non-finite values float() can produce (inf, -inf,  *)
(* nan).  Rounding error of binary floating point is not modelled.         *)
(* Text: a string is a sequence of tokens; " " and "\n" are the whitespace *)
(* tokens, the markers "EMOTION:" and "CONFIDENCE:" are single tokens      *)
(* ending in the colon that split(':', 1) splits on.                       *)
(***************************************************************************)
EXTENDS Integers, Sequences, FiniteSets, TLC

\* Largest raw score the local model gives one native label, in quarters.
MaxScore == 1
\* Largest number of lines in a reply of the remote model.
MaxLines == 2
\* Largest number of lines in a reply to the combined prompt.
MaxGenLines == 4

(***************************************************************************)
(* Floats                                                                  *)
(***************************************************************************)
RECURSIVE GCD(_, _)
GCD(a, b) == IF b = 0 THEN a ELSE GCD(b, a % b)

Abs(x) == IF x < 0 THEN -x ELSE x

\* The rational n/d (d > 0) in lowest terms.
Fin(n, d) ==
    LET g == GCD(Abs(n), d)
    IN  [k |-> "fin", n |-> n \div g, d |-> d \div g]

Inf  == [k |-> "inf",  n |-> 1,  d |-> 1]
NInf == [k |-> "ninf", n |-> -1, d |-> 1]
NaN  == [k |-> "nan",  n |-> 0,  d |-> 1]

Zero == Fin(0, 1)
One  == Fin(1, 1)
Half == Fin(1, 2)
Four == Fin(4, 1)

FNeg(a) ==
    CASE a.k = "fin"  -> Fin(-a.n, a.d)
      [] a.k = "inf"  -> NInf
      [] a.k = "ninf" -> Inf
      [] OTHER        -> NaN

FAdd(a, b) ==
    CASE a.k = "nan" \/ b.k = "nan"     -> NaN
      [] a.k = "fin" /\ b.k = "fin"     -> Fin(a.n * b.d + b.n * a.d, a.d * b.d)
      [] a.k = "fin"                    -> b
      [] b.k = "fin"                    -> a
      [] a.k = b.k                      -> a
      [] OTHER                          -> NaN

FSub(a, b) == FAdd(a, FNeg(b))

\* a / b for a finite b > 0 (the only divisors the code uses: a positive
\* total, and 4).
FDiv(a, b) ==
    CASE a.k = "fin" -> Fin(a.n * b.d, a.d * b.n)
      [] OTHER       -> a

\* a < b; every comparison with nan is false.
FLess(a, b) ==
    CASE a.k = "nan" \/ b.k = "nan" -> FALSE
      [] a.k = "fin" /\ b.k = "fin" -> a.n * b.d < b.n * a.d
      [] a.k = "ninf"               -> b.k # "ninf"
      [] a.k = "inf"                -> FALSE
      [] OTHER                      -> b.k = "inf"

\* a == b; nan equals nothing, itself included.
FEq(a, b) == a.k # "nan" /\ b.k # "nan" /\ a = b

FLeq(a, b) == FLess(a, b) \/ FEq(a, b)

(***************************************************************************)
(* Text                                                                    *)
(***************************************************************************)
Whitespace == {" ", "\n"}

RECURSIVE LStrip(_)
LStrip(s) ==
    IF s # <<>> /\ Head(s) \in Whitespace THEN LStrip(Tail(s)) ELSE s

RECURSIVE RStrip(_)
RStrip(s) ==
    IF s # <<>> /\ s[Len(s)] \in Whitespace
    THEN RStrip(SubSeq(s, 1, Len(s) - 1))
    ELSE s

\* str.strip()
Strip(s) == RStrip(LStrip(s))

\* str.split('\n'): always at least one (possibly empty) line.
RECURSIVE SplitLines(_)
SplitLines(s) ==
    IF \E i \in 1..Len(s) : s[i] = "\n"
    THEN LET i == CHOOSE j \in 1..Len(s) :
                      s[j] = "\n" /\ \A m \in 1..(j - 1) : s[m] # "\n"
         IN  <<SubSeq(s, 1, i - 1)>> \o SplitLines(SubSeq(s, i + 1, Len(s)))
    ELSE <<s>>

\* '\n'.join(lines)
RECURSIVE JoinLines(_)
JoinLines(ls) ==
    IF ls = <<>> THEN <<>>
    ELSE IF Len(ls) = 1 THEN ls[1]
    ELSE ls[1] \o <<"\n">> \o JoinLines(Tail(ls))

\* line.startswith(marker)
StartsWith(line, marker) == line # <<>> /\ Head(line) = marker

\* line.split(':', 1)[1].strip() of a line that starts with a marker.
AfterColon(line) == Strip(Tail(line))

\* float(s): [ok |-> FALSE] stands for ValueError.
ParseFloat(s) ==
    IF Len(s) # 1 THEN [ok |-> FALSE, v |-> NaN]
    ELSE CASE s[1] = "0.7" -> [ok |-> TRUE, v |-> Fin(7, 10)]
           [] s[1] = "0.2" -> [ok |-> TRUE, v |-> Fin(1, 5)]
           [] s[1] = "1.5" -> [ok |-> TRUE, v |-> Fin(3, 2)]
           [] s[1] = "inf" -> [ok |-> TRUE, v |-> Inf]
           [] s[1] = "nan" -> [ok |-> TRUE, v |-> NaN]
           [] OTHER        -> [ok |-> FALSE, v |-> NaN]

(***************************************************************************)
(* EmotionDetector: constants                                              *)
(***************************************************************************)
\* Native labels of the local 7-class model.
NativeLabels == <<"joy", "neutral", "surprise", "anger", "sadness", "fear", "disgust">>

NativeSet == {NativeLabels[i] : i \in 1..Len(NativeLabels)}

\* EMOTION_MAPPING.get(original_label, 'Neutral')
EMOTION_MAPPING(l) ==
    CASE l = "joy"      -> "Happy"
      [] l = "neutral"  -> "Neutral"
      [] l = "surprise" -> "Confused"
      [] l = "anger"    -> "Frustrated"
      [] l = "sadness"  -> "Sad"
      [] l = "fear"     -> "Confused"
      [] l = "disgust"  -> "Frustrated"
      [] OTHER          -> "Neutral"

TARGET_EMOTIONS == <<"Happy", "Neutral", "Confused", "Frustrated", "Sad">>

TargetSet == {TARGET_EMOTIONS[i] : i \in 1..Len(TARGET_EMOTIONS)}

\* Python's None, and the value of a variable no statement has assigned yet.
None  == [kind |-> "None"]
Unset == [kind |-> "unset"]

EmotionResult(label, confidence, scores) ==
    [kind |-> "result", label |-> label, confidence |-> confidence, scores |-> scores]

\* sum(scores.values()), in the dict's insertion order
RECURSIVE SumFrom(_, _)
SumFrom(scores, i) ==
    IF i > Len(TARGET_EMOTIONS) THEN Zero
    ELSE FAdd(scores[TARGET_EMOTIONS[i]], SumFrom(scores, i + 1))

SumValues(scores) == SumFrom(scores, 1)

(***************************************************************************)
(* Inputs                                                                  *)
(***************************************************************************)
\* User messages: empty, whitespace only, and one with text.
Texts == {<<>>, <<" ">>, <<" ", "\n">>, <<" ", "hello">>}

\* Raw scores of one native label: 0, 1/4, .., MaxScore/4.
ScoreValues == {Fin(u, 4) : u \in 0..MaxScore}

\* What the local pipeline does when called: it raises, or it returns one
\* score for each native label (top_k=None).
Predictions == [NativeSet -> ScoreValues]

LocalOutcomes ==
    {[raises |-> TRUE, pred |-> [l \in NativeSet |-> Zero]]} \cup
    {[raises |-> FALSE, pred |-> p] : p \in Predictions}

\* Lines the remote model may answer with.
ReplyLines ==
    { <<"EMOTION:", " ", "Sad">>,
      <<"EMOTION:", " ", "Excited">>,
      <<" ", "EMOTION:", " ", "Happy">>,
      <<"CONFIDENCE:", " ", "0.7">>,
      <<"CONFIDENCE:", " ", "1.5">>,
      <<"CONFIDENCE:", " ", "abc">>,
      <<"CONFIDENCE:", " ", "inf">>,
      <<"CONFIDENCE:", " ", "nan">>,
      <<"hello">> }

RECURSIVE LineSeqs(_)
LineSeqs(n) ==
    IF n = 0 THEN {<<>>}
    ELSE LET shorter == LineSeqs(n - 1)
         IN  shorter \cup {Append(ls, l) : ls \in {x \in shorter : Len(x) = n - 1}, l \in ReplyLines}

\* response.text of every reply of at most MaxLines lines
ReplyTexts == {JoinLines(ls) : ls \in LineSeqs(MaxLines)}

\* What the remote model does when called: generate_content or response.text
\* raises, or a text comes back.
RemoteOutcomes ==
    {[invoked |-> TRUE, raises |-> TRUE, text |-> <<>>]} \cup
    {[invoked |-> TRUE, raises |-> FALSE, text |-> t] : t \in ReplyTexts}

\* generate_content was not called.
NotInvoked == [invoked |-> FALSE, raises |-> FALSE, text |-> <<>>]

(***************************************************************************)
(* State                                                                   *)
(***************************************************************************)
VARIABLES
    emotion_pipeline,       \* self.emotion_pipeline is set (the model loaded)
    use_gemini_fallback,    \* self.use_gemini_fallback
    gemini_model,           \* self.gemini_model is set
    confidence_threshold,   \* self.confidence_threshold
    pc,                     \* position of the detect_emotion call
    user_message,           \* argument of the call
    hf_calls,               \* calls of self.emotion_pipeline in this call
    hf_total,               \* `total` of _detect_with_hf_model
    hf_result,              \* `result` of detect_emotion (line 92)
    gemini_calls,           \* calls of generate_content in this call
    reply,                  \* what the remote model did in this call
    gemini_result,          \* value returned by _detect_with_gemini
    result,                 \* value returned by detect_emotion
    raised                  \* detect_emotion raised to its caller

config == <<emotion_pipeline, use_gemini_fallback, gemini_model, confidence_threshold>>
call   == <<user_message, hf_calls, hf_total, hf_result, gemini_calls, reply,
            gemini_result, result, raised>>
dvars  == <<config, pc, call>>

\* ResponseGenerator (app.py)
VARIABLES
    has_gemini,             \* self.has_gemini
    g_pc,                   \* position of the generate call
    g_query,                \* argument `query`
    g_language,             \* argument `language`
    g_documents,            \* the vector store returned documents for the query
    g_reply,                \* what the remote model did in this call
    g_response_text,        \* returned response_text
    g_emotion_label,        \* returned emotion_label
    g_emotion_confidence,   \* returned emotion_confidence
    g_request_rating,       \* returned should_request_rating
    g_raised                \* generate raised to its caller

gcall == <<g_query, g_language, g_documents, g_reply, g_response_text,
           g_emotion_label, g_emotion_confidence, g_request_rating, g_raised>>
gvars == <<has_gemini, g_pc, gcall>>

\* EmotionResponseAdapter (emotion_response_adapter.py)
VARIABLES
    a_gemini_model,         \* self.gemini_model is set
    frustration_tracker,    \* self.frustration_tracker: session id -> count
    a_pc,                   \* position of the adapter call
    a_op,                   \* the method called
    a_emotion,              \* argument `emotion_label`
    a_base_answer,          \* argument `base_answer`
    a_user_message,         \* argument `user_message`
    a_context,              \* argument `conversation_context`
    a_session,              \* argument `session_id` of reset and get_level
    a_before,               \* frustration_tracker when the call started
    a_prompt,               \* system prompt built by this call
    a_calls,                \* remote calls issued by this call
    a_reply,                \* what the remote model did in this call
    a_output,               \* text returned by adjust_response_based_on_emotion
    a_level,                \* number returned by get_frustration_level
    a_raised                \* the call raised to its caller

acall == <<a_op, a_emotion, a_base_answer, a_user_message, a_context, a_session,
           a_before, a_prompt, a_calls, a_reply, a_output, a_level, a_raised>>
avars == <<a_gemini_model, frustration_tracker, a_pc, acall>>

\* Threads calling one EmotionResponseAdapter at the same time; the shared
\* state is a_gemini_model and frustration_tracker above.
VARIABLES
    c_pinned,               \* workload: each thread has its own session (else all share one)
    c_pc,                   \* per thread: position inside its call
    c_op,                   \* per thread: the method called
    c_emotion,              \* per thread: argument `emotion_label`
    c_session,              \* per thread: session_id of the call
    c_count,                \* per thread: local frustration_count
    c_directive,            \* per thread: the prompt carries the escalation directive
    c_level,                \* per thread: counter read in post-processing, or returned
    c_reply,                \* per thread: what the remote model did
    c_output,               \* per thread: text returned
    c_raised,               \* per thread: the call raised to its caller
    c_solo                  \* history: per session, the counter its own calls give in sequence

ccall == <<c_op, c_emotion, c_session, c_count, c_directive, c_level, c_reply,
           c_output, c_raised>>
cvars == <<c_pinned, c_pc, ccall, c_solo>>

\* AnalyticsLogger (analytics_logger.py) and the route that reads it (app.py)
VARIABLES
    l_enabled,              \* self.enabled
    l_file,                 \* lines of self.log_file, oldest first
    l_clock,                \* number of log entries written so far
    l_pc,                   \* position of the logger call
    l_op,                   \* the method or route called
    l_limit,                \* argument `limit` of get_recent_logs
    l_result                \* list returned by get_recent_logs

lvars == <<l_enabled, l_file, l_clock, l_pc, l_op, l_limit, l_result>>

vars   == <<dvars, gvars, avars, cvars, lvars>>

Threads == {"t1", "t2"}

\* No thread is inside a call.
ThreadsIdle ==
    /\ c_pc = [t \in Threads |-> "idle"]
    /\ c_op = [t \in Threads |-> ""]
    /\ c_emotion = [t \in Threads |-> ""]
    /\ c_session = [t \in Threads |-> ""]
    /\ c_count = [t \in Threads |-> 0]
    /\ c_directive = [t \in Threads |-> FALSE]
    /\ c_level = [t \in Threads |-> 0]
    /\ c_reply = [t \in Threads |-> [kind |-> "none", text |-> <<>>]]
    /\ c_output = [t \in Threads |-> <<>>]
    /\ c_raised = [t \in Threads |-> FALSE]

\* The concurrent workload is not running.
ConcurrencyIdle ==
    /\ c_pinned = FALSE
    /\ ThreadsIdle
    /\ c_solo = [s \in {} |-> 0]

\* No logger call is in progress; the log file is empty.
LoggerIdle ==
    /\ l_enabled = FALSE
    /\ l_file = <<>>
    /\ l_clock = 0
    /\ l_pc = "idle"
    /\ l_op = ""
    /\ l_limit = 0
    /\ l_result = <<>>

\* The tracker as __init__ leaves it: a dict without keys.
EmptyTracker == [s \in {} |-> 0]

\* conversation_context: None or an empty dict (present = FALSE), or a dict
\* whose session_id is a session name or is empty or missing ("").
NoContext == [present |-> FALSE, session_id |-> ""]
NoPrompt  == [template |-> "", directive |-> FALSE]
NoRewrite == [kind |-> "none", text |-> <<>>]

\* No adapter call is in progress and none has returned.
AdapterIdle ==
    /\ a_pc = "idle"
    /\ a_op = ""
    /\ a_emotion = ""
    /\ a_base_answer = <<>>
    /\ a_user_message = <<>>
    /\ a_context = NoContext
    /\ a_session = ""
    /\ a_before = EmptyTracker
    /\ a_prompt = NoPrompt
    /\ a_calls = 0
    /\ a_reply = NoRewrite
    /\ a_output = <<>>
    /\ a_level = 0
    /\ a_raised = FALSE

\* No generate call is in progress and none has returned.
GenerateIdle ==
    /\ g_pc = "idle"
    /\ g_query = <<>>
    /\ g_language = "en"
    /\ g_documents = FALSE
    /\ g_reply = NotInvoked
    /\ g_response_text = <<>>
    /\ g_emotion_label = <<>>
    /\ g_emotion_confidence = Zero
    /\ g_request_rating = FALSE
    /\ g_raised = FALSE

\* No detect_emotion call is in progress and none has returned.
DetectorIdle ==
    /\ pc = "idle"
    /\ user_message = <<>>
    /\ hf_calls = 0
    /\ hf_total = Zero
    /\ hf_result = Unset
    /\ gemini_calls = 0
    /\ reply = NotInvoked
    /\ gemini_result = Unset
    /\ result = Unset
    /\ raised = FALSE

(***************************************************************************)
(* EmotionDetector: methods                                                *)
(***************************************************************************)
\* _default_emotion
_default_emotion ==
    EmotionResult("Neutral", One,
                  [e \in TargetSet |-> IF e = "Neutral" THEN One ELSE Zero])

\* `not user_message or not user_message.strip()`
IsBlankNoStrip(t) == t = <<>>
IsBlank(t) == t = <<>> \/ Strip(t) = <<>>

\* The loop of _detect_with_hf_model: emotion_scores[target] += score for
\* the predictions i..7 whose label maps to target e.
RECURSIVE Accumulate(_, _, _)
Accumulate(pred, e, i) ==
    IF i > Len(NativeLabels) THEN Zero
    ELSE LET l == NativeLabels[i]
         IN  IF EMOTION_MAPPING(l) = e
             THEN FAdd(pred[l], Accumulate(pred, e, i + 1))
             ELSE Accumulate(pred, e, i + 1)

RawScores(pred) == [e \in TargetSet |-> Accumulate(pred, e, 1)]

\* `if total > 0: emotion_scores = {k: v/total ...}`
NormalizeByMax(scores, total) ==
    IF FLess(Zero, total)
    THEN LET m == CHOOSE v \in {scores[e] : e \in TargetSet} :
                      \A e \in TargetSet : FLeq(scores[e], v)
         IN  [e \in TargetSet |-> FDiv(scores[e], m)]
    ELSE scores
Normalize(scores, total) ==
    IF FLess(Zero, total)
    THEN [e \in TargetSet |-> FDiv(scores[e], total)]
    ELSE scores

RECURSIVE MaxItemLast(_, _, _)
MaxItemLast(scores, best, i) ==
    IF i > Len(TARGET_EMOTIONS) THEN TARGET_EMOTIONS[best]
    ELSE IF FLeq(scores[TARGET_EMOTIONS[best]], scores[TARGET_EMOTIONS[i]])
         THEN MaxItemLast(scores, i, i + 1)
         ELSE MaxItemLast(scores, best, i + 1)

\* max(emotion_scores.items(), key=lambda x: x[1]): the first item whose
\* value no later item exceeds; `best` is the index kept so far.
RECURSIVE MaxItem(_, _, _)
MaxItem(scores, best, i) ==
    IF i > Len(TARGET_EMOTIONS) THEN TARGET_EMOTIONS[best]
    ELSE IF FLess(scores[TARGET_EMOTIONS[best]], scores[TARGET_EMOTIONS[i]])
         THEN MaxItem(scores, i, i + 1)
         ELSE MaxItem(scores, best, i + 1)

\* _detect_with_hf_model, given the predictions the pipeline returned
_detect_with_hf_model(pred) ==
    LET raw      == RawScores(pred)
        scores   == Normalize(raw, SumValues(raw))
        dominant == MaxItem(scores, 1, 2)
    IN  EmotionResult(dominant, scores[dominant], scores)

\* One iteration of the parsing loop of _detect_with_gemini.
ParseLine(st, line) ==
    IF StartsWith(line, "EMOTION:")
    THEN [st EXCEPT !.emotion_label = AfterColon(line)]
    ELSE IF StartsWith(line, "CONFIDENCE:")
    THEN LET f == ParseFloat(AfterColon(line))
         IN  [st EXCEPT !.confidence = IF f.ok THEN f.v ELSE Half]
    ELSE st

RECURSIVE ParseFrom(_, _, _)
ParseFrom(st, lines, i) ==
    IF i > Len(lines) THEN st
    ELSE ParseFrom(ParseLine(st, lines[i]), lines, i + 1)

\* `if emotion_label not in self.TARGET_EMOTIONS: emotion_label = 'Neutral'`
KeepLabel(emotion_label) ==
    IF Len(emotion_label) = 1 THEN emotion_label[1] ELSE "unknown"
ValidateLabel(emotion_label) ==
    IF Len(emotion_label) = 1 /\ emotion_label[1] \in TargetSet
    THEN emotion_label[1]
    ELSE "Neutral"

\* The body of _detect_with_gemini after the call: parse response.text.
ParseGeminiReply(text) ==
    LET result_text == Strip(text)
        st == ParseFrom([emotion_label |-> <<"Neutral">>, confidence |-> Half],
                        SplitLines(result_text), 1)
        emotion_label == ValidateLabel(st.emotion_label)
        confidence    == st.confidence
        scores == [e \in TargetSet |->
                      IF e = emotion_label THEN confidence
                      ELSE FDiv(FSub(One, confidence), Four)]
    IN  EmotionResult(emotion_label, confidence, scores)

\* The lines of a reply as the parsing loop sees them.
ReplyLinesOf(text) == SplitLines(Strip(text))

IsEmotionLine(line) == StartsWith(line, "EMOTION:")
IsConfidenceLine(line) ==
    ~StartsWith(line, "EMOTION:") /\ StartsWith(line, "CONFIDENCE:")

\* A reply in which no line is an EMOTION: or a CONFIDENCE: line.
NoMarkerLine(text) ==
    \A i \in 1..Len(ReplyLinesOf(text)) :
        /\ ~IsEmotionLine(ReplyLinesOf(text)[i])
        /\ ~IsConfidenceLine(ReplyLinesOf(text)[i])

\* _detect_with_gemini, given what the remote model does when called
AbsentOnNoMarker(ro) ==
    IF ~gemini_model THEN None
    ELSE IF ro.raises THEN None
    ELSE IF NoMarkerLine(ro.text) THEN None
    ELSE ParseGeminiReply(ro.text)
_detect_with_gemini(ro) ==
    IF ~gemini_model THEN None
    ELSE IF ro.raises THEN None
    ELSE ParseGeminiReply(ro.text)

\* What the remote model can do in a call of _detect_with_gemini.
GeminiOutcomes == IF gemini_model THEN RemoteOutcomes ELSE {NotInvoked}

\* `result['confidence'] < self.confidence_threshold and self.use_gemini_fallback`
LowConfidenceOrEqual(r) ==
    FLeq(r.confidence, confidence_threshold) /\ use_gemini_fallback
LowConfidence(r) ==
    FLess(r.confidence, confidence_threshold) /\ use_gemini_fallback

\* `if gemini_result: return gemini_result` / `return result`
ReturnGeminiAlways(g, r) == g
FallbackChoice(g, r) == IF g.kind = "result" THEN g ELSE r

(***************************************************************************)
(* Actions                                                                 *)
(***************************************************************************)
Thresholds == {Fin(3, 10), Fin(1, 4)}

\* EmotionDetector.__init__: the pipeline loads or not; gemini_model is set
\* only under use_gemini_fallback, and only if its construction succeeds.
Init ==
    /\ emotion_pipeline \in BOOLEAN
    /\ use_gemini_fallback \in BOOLEAN
    /\ gemini_model \in (IF use_gemini_fallback THEN BOOLEAN ELSE {FALSE})
    /\ confidence_threshold \in Thresholds
    /\ DetectorIdle
    /\ has_gemini = FALSE
    /\ GenerateIdle
    /\ a_gemini_model = FALSE
    /\ frustration_tracker = EmptyTracker
    /\ AdapterIdle
    /\ ConcurrencyIdle
    /\ LoggerIdle

\* detect_emotion, lines 86-90: the blank check and the choice of the path.
Enter(t) ==
    /\ pc = "idle"
    /\ user_message' = t
    /\ IF IsBlank(t)
       THEN /\ result' = _default_emotion
            /\ pc' = "returned"
       ELSE /\ result' = result
            /\ pc' = IF emotion_pipeline THEN "hf" ELSE "fallback"
    /\ UNCHANGED <<config, hf_calls, hf_total, hf_result, gemini_calls, reply,
                   gemini_result, raised>>
    /\ UNCHANGED <<gvars, avars, cvars, lvars>>

\* detect_emotion, lines 91-103: the local model runs inside try/except.
HfModel(lo) ==
    /\ pc = "hf"
    /\ hf_calls' = hf_calls + 1
    /\ IF lo.raises
       THEN /\ hf_result' = [kind |-> "raised"]
            /\ pc' = "fallback"
            /\ UNCHANGED <<hf_total, result>>
       ELSE LET r == _detect_with_hf_model(lo.pred)
            IN  /\ hf_result' = r
                /\ hf_total' = SumValues(RawScores(lo.pred))
                /\ IF LowConfidence(r)
                   THEN /\ pc' = "lowconf"
                        /\ result' = result
                   ELSE /\ pc' = "returned"
                        /\ result' = r
    /\ UNCHANGED <<config, user_message, gemini_calls, reply, gemini_result, raised>>
    /\ UNCHANGED <<gvars, avars, cvars, lvars>>

\* detect_emotion, lines 96-101: the fallback for a low-confidence result.
LowConfidenceFallback(ro) ==
    /\ pc = "lowconf"
    /\ LET g == _detect_with_gemini(ro)
       IN  /\ gemini_result' = g
           /\ result' = FallbackChoice(g, hf_result)
    /\ reply' = ro
    /\ gemini_calls' = IF ro.invoked THEN gemini_calls + 1 ELSE gemini_calls
    /\ pc' = "returned"
    /\ UNCHANGED <<config, user_message, hf_calls, hf_total, hf_result, raised>>
    /\ UNCHANGED <<gvars, avars, cvars, lvars>>

\* detect_emotion, lines 106-110: no local result, the fallback is usable.
GeminiOnly(ro) ==
    /\ pc = "fallback"
    /\ use_gemini_fallback /\ gemini_model
    /\ LET g == _detect_with_gemini(ro)
       IN  /\ gemini_result' = g
           /\ result' = g
    /\ reply' = ro
    /\ gemini_calls' = IF ro.invoked THEN gemini_calls + 1 ELSE gemini_calls
    /\ pc' = "returned"
    /\ UNCHANGED <<config, user_message, hf_calls, hf_total, hf_result, raised>>
    /\ UNCHANGED <<gvars, avars, cvars, lvars>>

\* detect_emotion, lines 112-113: the ultimate fallback.
DefaultFallback ==
    /\ pc = "fallback"
    /\ ~(use_gemini_fallback /\ gemini_model)
    /\ result' = _default_emotion
    /\ pc' = "returned"
    /\ UNCHANGED <<config, user_message, hf_calls, hf_total, hf_result,
                   gemini_calls, reply, gemini_result, raised>>
    /\ UNCHANGED <<gvars, avars, cvars, lvars>>

\* The caller takes the result; the detector keeps nothing of the call.
Return ==
    /\ pc = "returned"
    /\ pc' = "idle"
    /\ user_message' = <<>>
    /\ hf_calls' = 0
    /\ hf_total' = Zero
    /\ hf_result' = Unset
    /\ gemini_calls' = 0
    /\ reply' = NotInvoked
    /\ gemini_result' = Unset
    /\ result' = Unset
    /\ raised' = FALSE
    /\ UNCHANGED config
    /\ UNCHANGED <<gvars, avars, cvars, lvars>>

Next ==
    \/ \E t \in Texts : Enter(t)
    \/ \E lo \in LocalOutcomes : HfModel(lo)
    \/ \E ro \in GeminiOutcomes : LowConfidenceFallback(ro)
    \/ \E ro \in GeminiOutcomes : GeminiOnly(ro)
    \/ DefaultFallback
    \/ Return

Spec == Init /\ [][Next]_vars

(***************************************************************************)
(* Properties of detect_emotion                                            *)
(***************************************************************************)
IsResult(r) == r.kind = "result"

\* The remote fallback produced nothing: it was not called, or it failed.
NoRemoteResult == ~reply.invoked \/ reply.raises

\* C1: every call of detect_emotion returns, without raising, a result
\* (never None) whose label is one of the five target emotions.
C1_AlwaysAResult ==
    pc = "returned" =>
        /\ ~raised
        /\ IsResult(result)
        /\ result.label \in TargetSet

\* C2: for a non-blank text, when neither the local classifier nor the
\* remote fallback produced a result, detect_emotion returns exactly the
\* default result (Neutral, confidence 1, all mass on Neutral).
C2_DefaultWhenNothing ==
    (/\ pc = "returned"
     /\ \E i \in 1..Len(user_message) : user_message[i] \notin Whitespace
     /\ ~IsResult(hf_result)
     /\ NoRemoteResult)
    => result = _default_emotion

\* C3: a local result with confidence >= confidence_threshold is returned
\* unchanged, and the remote model is called at no point of that call.
C3_HighConfidenceLocal ==
    (IsResult(hf_result) /\ FLeq(confidence_threshold, hf_result.confidence))
    => /\ gemini_calls = 0
       /\ ~reply.invoked
       /\ gemini_result = Unset
       /\ pc = "returned"
       /\ result = hf_result

C3_Witness ==
    /\ pc = "returned"
    /\ use_gemini_fallback /\ gemini_model
    /\ IsResult(hf_result)
    /\ FEq(hf_result.confidence, confidence_threshold)
    /\ result = hf_result

\* C4: a local result with confidence < confidence_threshold is replaced by
\* the remote result when the fallback is enabled, configured and its call
\* yields a reply; otherwise the low-confidence local result itself is
\* returned, never the default result.
C4_LowConfidenceLocal ==
    (/\ pc = "returned"
     /\ IsResult(hf_result)
     /\ FLess(hf_result.confidence, confidence_threshold))
    => IF use_gemini_fallback /\ gemini_model /\ ~reply.raises
       THEN /\ reply.invoked
            /\ IsResult(gemini_result)
            /\ result = gemini_result
       ELSE /\ result = hf_result
            /\ result # _default_emotion

C4_Witness ==
    /\ pc = "returned"
    /\ IsResult(hf_result)
    /\ FLess(hf_result.confidence, confidence_threshold)
    /\ use_gemini_fallback /\ gemini_model
    /\ reply.invoked /\ reply.raises
    /\ result = hf_result

\* C5: for an empty or whitespace-only text detect_emotion returns the
\* default result and calls neither the local model nor the remote model.
C5_BlankInput ==
    (/\ pc # "idle"
     /\ \A i \in 1..Len(user_message) : user_message[i] \in Whitespace)
    => /\ pc = "returned"
       /\ result = _default_emotion
       /\ hf_calls = 0
       /\ gemini_calls = 0
       /\ ~reply.invoked

C5_Witness ==
    /\ pc = "returned"
    /\ user_message = <<" ", "\n">>
    /\ emotion_pipeline /\ use_gemini_fallback /\ gemini_model
    /\ result = _default_emotion

AllZero(scores) == \A e \in TargetSet : scores[e] = Zero

\* C6: the distribution returned by _detect_with_hf_model sums to 1, or is
\* all-zero, and all-zero only when the total of the remapped raw scores
\* is 0.
C6_LocalDistribution ==
    IsResult(hf_result) =>
        /\ FEq(SumValues(hf_result.scores), One) \/ AllZero(hf_result.scores)
        /\ AllZero(hf_result.scores) => hf_total = Zero
        /\ hf_total = Zero => AllZero(hf_result.scores)

C6_Witness ==
    /\ IsResult(hf_result)
    /\ hf_total = Fin(7, 4)
    /\ hf_result.scores["Confused"] = Fin(2, 7)
    /\ FEq(SumValues(hf_result.scores), One)

\* The EMOTION: lines of a reply all carry a label outside the five, and
\* there is at least one.
ReportsUnknownLabel(text) ==
    LET lines == ReplyLinesOf(text)
    IN  /\ \E i \in 1..Len(lines) : IsEmotionLine(lines[i])
        /\ \A i \in 1..Len(lines) :
               IsEmotionLine(lines[i]) =>
                   \A e \in TargetSet : AfterColon(lines[i]) # <<e>>

\* C7: a reply whose EMOTION line carries a label outside the five gives a
\* result (not None, no exception) with label Neutral, and the reported
\* confidence is the score of Neutral.
C7_UnknownLabelCoerced ==
    (reply.invoked /\ ~reply.raises /\ ReportsUnknownLabel(reply.text))
    => /\ ~raised
       /\ IsResult(gemini_result)
       /\ gemini_result.label = "Neutral"
       /\ gemini_result.scores["Neutral"] = gemini_result.confidence

C7_Witness ==
    /\ reply.invoked
    /\ reply.text = <<"EMOTION:", " ", "Excited", "\n", "CONFIDENCE:", " ", "0.7">>
    /\ IsResult(gemini_result)
    /\ gemini_result.label = "Neutral"
    /\ gemini_result.scores["Neutral"] = Fin(7, 10)

\* The value the CONFIDENCE: line of a reply reports: that of the last
\* such line, 0.5 when there is none or float() rejects it.
ReportedConfidence(text) ==
    LET cl == SelectSeq(ReplyLinesOf(text), IsConfidenceLine)
    IN  IF cl = <<>> THEN Half
        ELSE LET f == ParseFloat(AfterColon(cl[Len(cl)]))
             IN  IF f.ok THEN f.v ELSE Half

\* C8: in every result of the remote fallback, confidence is the value of
\* the CONFIDENCE line (0.5 when missing or unparsable), the label's score
\* is confidence, each other score is (1 - confidence) / 4, and the five
\* scores sum to 1.
C8_RemoteDistribution ==
    IsResult(gemini_result) =>
        /\ gemini_result.confidence = ReportedConfidence(reply.text)
        /\ gemini_result.scores[gemini_result.label] = gemini_result.confidence
        /\ \A e \in TargetSet \ {gemini_result.label} :
               gemini_result.scores[e] =
                   FDiv(FSub(One, gemini_result.confidence), Four)
        /\ FEq(SumValues(gemini_result.scores), One)

\* C9 as stated: the remote fallback returns None, without raising, when no
\* remote model is configured, when the call raises and when the reply has
\* no EMOTION: or CONFIDENCE: line; detect_emotion then keeps the local
\* result.
C9_AbsentOnUnparsable ==
    (/\ gemini_result # Unset
     /\ \/ ~gemini_model
        \/ reply.raises
        \/ reply.invoked /\ NoMarkerLine(reply.text))
    => /\ ~raised
       /\ gemini_result = None
       /\ IsResult(hf_result) => result = hf_result

\* What a reply without marker lines is parsed to.
NeutralHalf ==
    EmotionResult("Neutral", Half,
                  [e \in TargetSet |-> IF e = "Neutral" THEN Half ELSE Fin(1, 8)])

\* C9, amended: the remote fallback returns None, without raising, when no
\* remote model is configured or the call raises, and detect_emotion then
\* returns the local result if it has one; a reply with no EMOTION: or
\* CONFIDENCE: line is not absent: it is parsed to Neutral with confidence
\* 0.5, and detect_emotion returns that instead of the local result.
C9_AbsentOnFailureOnly ==
    gemini_result # Unset =>
        /\ ~raised
        /\ (~gemini_model \/ reply.raises) =>
               /\ gemini_result = None
               /\ IsResult(hf_result) => result = hf_result
        /\ (reply.invoked /\ ~reply.raises /\ NoMarkerLine(reply.text)) =>
               /\ gemini_result = NeutralHalf
               /\ result = gemini_result

C9_Witness ==
    /\ pc = "returned"
    /\ IsResult(hf_result)
    /\ hf_result.label = "Happy"
    /\ reply.invoked /\ reply.text = <<"hello">>
    /\ gemini_result = NeutralHalf
    /\ result = gemini_result

\* C10: every result detect_emotion returns has 0 <= confidence <= 1 and
\* five scores >= 0.
C10_ResultRanges ==
    (pc = "returned" /\ IsResult(result)) =>
        /\ FLeq(Zero, result.confidence)
        /\ FLeq(result.confidence, One)
        /\ \A e \in TargetSet : FLeq(Zero, result.scores[e])

(***************************************************************************)
(* ResponseGenerator.generate (app.py): the combined call and its parser   *)
(*                                                                         *)
(* The Arabic words of the source are written in Latin letters here:       *)
(* saeed, muhayid, murtabik, muhbat, hazeen are the five Arabic emotion    *)
(* names of emotion_map, shukran is a closing keyword.                     *)
(***************************************************************************)
\* str.lower() of one token
LowerTok(t) ==
    CASE t = "Thanks"         -> "thanks"
      [] t = "Contact"        -> "contact"
      [] t = "Representative" -> "representative"
      [] t = "Help"           -> "help"
      [] OTHER                -> t

Lower(s) == [i \in 1..Len(s) |-> LowerTok(s[i])]

\* `any(keyword in query_lower for keyword in closing_keywords)`
ClosingTokens == {"thanks", "bye", "great", "shukran"}
_is_closing_intent(query_lower) ==
    \E i \in 1..Len(query_lower) : query_lower[i] \in ClosingTokens

\* Queries: a question about fees (no closing intent) and a thank-you.
Queries == {<<"what", " ", "fee">>, <<"Thanks">>}

Languages == {"en", "ar"}

\* emotion_map.get(emotion_label, emotion_label)
emotion_map(label) ==
    CASE label = <<"saeed">>    -> <<"Happy">>
      [] label = <<"muhayid">>  -> <<"Neutral">>
      [] label = <<"murtabik">> -> <<"Confused">>
      [] label = <<"muhbat">>   -> <<"Frustrated">>
      [] label = <<"hazeen">>   -> <<"Sad">>
      [] OTHER                  -> label

\* The rating request appended for a closing query (one token a sentence).
RatingRequest(language) ==
    IF language = "ar"
    THEN <<"\n", "\n", "law indak daqiqa, qayyim tajribatak maai!">>
    ELSE <<"\n", "\n", "If you have a moment, please rate your experience with me below!">>

\* Lines the remote model may answer the combined prompt with.
GenReplyLines ==
    { <<"EMOTION:", " ", "Sad">>,
      <<"EMOTION:", " ", "Excited">>,
      <<"EMOTION:", " ", "hazeen">>,
      <<"CONFIDENCE:", " ", "0.7">>,
      <<"RESPONSE:", " ", "line1">>,
      <<"RESPONSE:">>,
      <<"line2">>,
      <<>> }

RECURSIVE GenLineSeqs(_)
GenLineSeqs(n) ==
    IF n = 0 THEN {<<>>}
    ELSE LET shorter == GenLineSeqs(n - 1)
         IN  shorter \cup {Append(ls, l) : ls \in {x \in shorter : Len(x) = n - 1},
                                           l \in GenReplyLines}

GenReplyTexts == {JoinLines(ls) : ls \in GenLineSeqs(MaxGenLines)}

GenOutcomes ==
    {[invoked |-> TRUE, raises |-> TRUE, text |-> <<>>]} \cup
    {[invoked |-> TRUE, raises |-> FALSE, text |-> t] : t \in GenReplyTexts}

\* One iteration of the parsing loop of generate (lines 311-333).
GenParseLineFirstOnly(st, line) ==
    IF StartsWith(line, "EMOTION:")
    THEN [st EXCEPT !.emotion_label = emotion_map(AfterColon(line))]
    ELSE IF StartsWith(line, "CONFIDENCE:")
    THEN LET f == ParseFloat(AfterColon(line))
         IN  [st EXCEPT !.emotion_confidence = IF f.ok THEN f.v ELSE Half]
    ELSE IF StartsWith(line, "RESPONSE:")
    THEN [st EXCEPT !.response_text = AfterColon(line)]
    ELSE st
GenParseLine(st, line) ==
    IF StartsWith(line, "EMOTION:")
    THEN [st EXCEPT !.emotion_label = emotion_map(AfterColon(line))]
    ELSE IF StartsWith(line, "CONFIDENCE:")
    THEN LET f == ParseFloat(AfterColon(line))
         IN  [st EXCEPT !.emotion_confidence = IF f.ok THEN f.v ELSE Half]
    ELSE IF StartsWith(line, "RESPONSE:")
    THEN [st EXCEPT !.response_text = AfterColon(line)]
    ELSE IF st.response_text # <<>>
    THEN [st EXCEPT !.response_text = st.response_text \o <<"\n">> \o line]
    ELSE st

RECURSIVE GenParseFrom(_, _, _)
GenParseFrom(st, lines, i) ==
    IF i > Len(lines) THEN st
    ELSE GenParseFrom(GenParseLine(st, lines[i]), lines, i + 1)

\* The default values of generate (lines 241-243).
ZeroConfidenceHalf ==
    [emotion_label |-> <<"Neutral">>, emotion_confidence |-> Half,
     response_text |-> <<>>]
GenDefaults ==
    [emotion_label |-> <<"Neutral">>, emotion_confidence |-> Zero,
     response_text |-> <<>>]

\* `if not response_text: response_text = result_text` (lines 335-337)
RawTextIfEmpty(response_text, result_text) ==
    IF response_text = <<>> THEN result_text ELSE response_text

\* `if should_request_rating: response_text += ...` (lines 340-344, 362-366)
AddRatingRequest(response_text, should_request_rating, language) ==
    IF should_request_rating
    THEN response_text \o RatingRequest(language)
    ELSE response_text

\* Lines 307-342 of generate: the reply text came back, parse it and return.
CombinedParse(text, should_request_rating, language) ==
    LET result_text == Strip(text)
        st == GenParseFrom(GenDefaults, SplitLines(result_text), 1)
        response_text ==
            AddRatingRequest(RawTextIfEmpty(st.response_text, result_text),
                             should_request_rating, language)
    IN  [response_text      |-> Strip(response_text),
         emotion_label      |-> st.emotion_label,
         emotion_confidence |-> st.emotion_confidence]

\* Lines 348-360 of generate: the answer built without the remote model.
FallbackResponse(documents, should_request_rating) ==
    IF documents THEN <<"documents">>
    ELSE IF should_request_rating THEN <<"Thank you for chatting with me!">>
    ELSE <<"I'm Sadeem's assistant!">>

\* ResponseGenerator.__init__; the other components stay idle.
InitGenerate ==
    /\ has_gemini \in BOOLEAN
    /\ GenerateIdle
    /\ emotion_pipeline = FALSE
    /\ use_gemini_fallback = FALSE
    /\ gemini_model = FALSE
    /\ confidence_threshold = Fin(3, 10)
    /\ DetectorIdle
    /\ a_gemini_model = FALSE
    /\ frustration_tracker = EmptyTracker
    /\ AdapterIdle
    /\ ConcurrencyIdle
    /\ LoggerIdle

\* generate with the remote model: lines 228-342, and lines 344-347 when
\* the call or response.text raises.
GenerateCombined(q, lang, ro) ==
    /\ g_pc = "idle"
    /\ has_gemini
    /\ g_query' = q
    /\ g_language' = lang
    /\ g_reply' = ro
    /\ g_request_rating' = _is_closing_intent(Strip(Lower(q)))
    /\ IF ro.raises
       THEN /\ g_pc' = "fallback"
            /\ g_emotion_label' = GenDefaults.emotion_label
            /\ g_emotion_confidence' = GenDefaults.emotion_confidence
            /\ UNCHANGED g_response_text
       ELSE LET out == CombinedParse(ro.text, _is_closing_intent(Strip(Lower(q))), lang)
            IN  /\ g_pc' = "returned"
                /\ g_response_text' = out.response_text
                /\ g_emotion_label' = out.emotion_label
                /\ g_emotion_confidence' = out.emotion_confidence
    /\ UNCHANGED <<has_gemini, g_documents, g_raised>>
    /\ UNCHANGED <<dvars, avars, cvars, lvars>>

\* generate without the remote model: lines 228-247, then the fallback.
GenerateNoGemini(q, lang) ==
    /\ g_pc = "idle"
    /\ ~has_gemini
    /\ g_query' = q
    /\ g_language' = lang
    /\ g_request_rating' = _is_closing_intent(Strip(Lower(q)))
    /\ g_emotion_label' = GenDefaults.emotion_label
    /\ g_emotion_confidence' = GenDefaults.emotion_confidence
    /\ g_pc' = "fallback"
    /\ UNCHANGED <<has_gemini, g_documents, g_reply, g_response_text, g_raised>>
    /\ UNCHANGED <<dvars, avars, cvars, lvars>>

\* generate, lines 348-368: the fallback answer.
GenerateFallback(documents) ==
    /\ g_pc = "fallback"
    /\ g_documents' = documents
    /\ g_response_text' =
           AddRatingRequest(FallbackResponse(documents, g_request_rating),
                            g_request_rating, g_language)
    /\ g_pc' = "returned"
    /\ UNCHANGED <<has_gemini, g_query, g_language, g_reply, g_emotion_label,
                   g_emotion_confidence, g_request_rating, g_raised>>
    /\ UNCHANGED <<dvars, avars, cvars, lvars>>

\* The caller takes the tuple; the generator keeps nothing of the call.
GenerateReturn ==
    /\ g_pc = "returned"
    /\ g_pc' = "idle"
    /\ g_query' = <<>>
    /\ g_language' = "en"
    /\ g_documents' = FALSE
    /\ g_reply' = NotInvoked
    /\ g_response_text' = <<>>
    /\ g_emotion_label' = <<>>
    /\ g_emotion_confidence' = Zero
    /\ g_request_rating' = FALSE
    /\ g_raised' = FALSE
    /\ UNCHANGED has_gemini
    /\ UNCHANGED <<dvars, avars, cvars, lvars>>

NextGenerate ==
    \/ /\ g_pc = "idle" /\ has_gemini
       /\ \E q \in Queries, lang \in Languages, ro \in GenOutcomes :
              GenerateCombined(q, lang, ro)
    \/ \E q \in Queries, lang \in Languages : GenerateNoGemini(q, lang)
    \/ \E documents \in BOOLEAN : GenerateFallback(documents)
    \/ GenerateReturn

SpecGenerate == InitGenerate /\ [][NextGenerate]_vars

(***************************************************************************)
(* Properties of the combined parse of generate                            *)
(***************************************************************************)
\* generate returned from the combined path: the remote text came back.
CombinedReturned == g_pc = "returned" /\ g_reply.invoked /\ ~g_reply.raises

IsGenMarkerLine(line) ==
    \/ StartsWith(line, "EMOTION:")
    \/ StartsWith(line, "CONFIDENCE:")
    \/ StartsWith(line, "RESPONSE:")

\* The reply is a line EMOTION: L with L one of the five labels, a line
\* CONFIDENCE: c with c parsable, a line RESPONSE: t1 with t1 non-empty,
\* then lines that begin with no marker; no whitespace around the whole.
WellFormedReply(text) ==
    LET lines == SplitLines(text)
    IN  /\ text = Strip(text)
        /\ Len(lines) >= 3
        /\ StartsWith(lines[1], "EMOTION:")
        /\ \E e \in TargetSet : AfterColon(lines[1]) = <<e>>
        /\ StartsWith(lines[2], "CONFIDENCE:")
        /\ ParseFloat(AfterColon(lines[2])).ok
        /\ StartsWith(lines[3], "RESPONSE:")
        /\ AfterColon(lines[3]) # <<>>
        /\ \A i \in 4..Len(lines) : ~IsGenMarkerLine(lines[i])

\* C11: for a well-formed reply and a query without closing intent the
\* combined parse returns t1, t2, .., tn joined by newlines, label L and
\* confidence c.
C11_WellFormedRoundTrip ==
    (CombinedReturned /\ ~g_request_rating /\ WellFormedReply(g_reply.text)) =>
        LET lines == SplitLines(g_reply.text)
        IN  /\ g_response_text =
                   JoinLines(<<AfterColon(lines[3])>> \o SubSeq(lines, 4, Len(lines)))
            /\ g_emotion_label = AfterColon(lines[1])
            /\ g_emotion_confidence = ParseFloat(AfterColon(lines[2])).v

C11_Witness ==
    /\ CombinedReturned
    /\ g_query = <<"what", " ", "fee">>
    /\ g_reply.text = <<"EMOTION:", " ", "Sad", "\n", "CONFIDENCE:", " ", "0.7", "\n",
                        "RESPONSE:", " ", "line1", "\n", "line2">>
    /\ g_response_text = <<"line1", "\n", "line2">>
    /\ g_emotion_label = <<"Sad">>
    /\ g_emotion_confidence = Fin(7, 10)

\* A non-empty reply none of whose lines begins with a marker.
NoGenMarkerLine(text) ==
    /\ text # <<>>
    /\ \A i \in 1..Len(ReplyLinesOf(text)) : ~IsGenMarkerLine(ReplyLinesOf(text)[i])

\* C12 as stated: for a non-empty reply with no RESPONSE:, EMOTION: or
\* CONFIDENCE: line the combined parse returns the whole reply verbatim,
\* label Neutral and confidence 0.5.
C12_NoMarkerHalf ==
    (CombinedReturned /\ NoGenMarkerLine(g_reply.text)) =>
        /\ g_response_text = g_reply.text
        /\ g_emotion_label = <<"Neutral">>
        /\ g_emotion_confidence = Half

\* C12, amended: for such a reply the combined parse returns the reply
\* stripped of surrounding whitespace (followed by the rating request when
\* the query has closing intent), label Neutral and confidence 0.0.
C12_NoMarkerZero ==
    (CombinedReturned /\ NoGenMarkerLine(g_reply.text)) =>
        /\ g_response_text =
               IF g_request_rating
               THEN Strip(Strip(g_reply.text) \o RatingRequest(g_language))
               ELSE Strip(g_reply.text)
        /\ g_emotion_label = <<"Neutral">>
        /\ g_emotion_confidence = Zero

C12_Witness ==
    /\ CombinedReturned
    /\ ~g_request_rating
    /\ g_reply.text = <<"line2">>
    /\ g_response_text = <<"line2">>
    /\ g_emotion_label = <<"Neutral">>
    /\ g_emotion_confidence = Zero

\* C13: the label the combined parse returns is one of the five target
\* labels; any other EMOTION: value is replaced by Neutral.
C13_LabelInFiveSet ==
    CombinedReturned => \E e \in TargetSet : g_emotion_label = <<e>>

\* C14: when the remote call returns a non-empty text, the response text
\* generate returns is non-empty.
C14_NonEmptyResponse ==
    (CombinedReturned /\ g_reply.text # <<>>) => g_response_text # <<>>

(***************************************************************************)
(* EmotionResponseAdapter (backend/emotion_response_adapter.py)            *)
(*                                                                         *)
(* The adapter rewrites a base answer with one remote call, then appends   *)
(* fixed sentences; it counts Frustrated adaptations per session.  Texts   *)
(* are token sequences; "?" is a token of its own and a word token may     *)
(* contain one of the keywords the code searches for.                      *)
(***************************************************************************)
MaxCount  == 3
MaxMsgLen == 3

\* len(answer.split()) > 20, line 196
SadWordLimit == 20

Sessions == {"A", "B"}
Contexts ==
    {NoContext, [present |-> TRUE, session_id |-> ""]}
        \cup {[present |-> TRUE, session_id |-> s] : s \in Sessions}
Emotions == TargetSet \cup {"Excited"}

RECURSIVE Repeat(_, _)
Repeat(t, n) == IF n = 0 THEN <<>> ELSE Repeat(t, n - 1) \o t

\* message matters through its length only.
Messages == {Repeat(<<"x">>, n) : n \in 0..MaxMsgLen}

\* n words separated by single spaces
WordsText(n) == IF n = 0 THEN <<>> ELSE <<"w">> \o Repeat(<<" ", "w">>, n - 1)

BaseAnswers == {<<"base">>, <<>>}

RewrittenTexts ==
    { <<"ok">>, <<" ", "ok", "\n">>, <<"ok", "?">>, <<>>,
      <<"Contact", " ", "us">>, <<"a", " ", "Representative">>,
      WordsText(SadWordLimit), WordsText(SadWordLimit + 1),
      WordsText(SadWordLimit + 1) \o <<" ", "Help">> }

\* generate_content raises, response.text raises, or response.text is a text.
RewriteOutcomes ==
    {[kind |-> "raises", text |-> <<>>], [kind |-> "no_text", text |-> <<>>]}
        \cup {[kind |-> "text", text |-> t] : t \in RewrittenTexts}

\* The searched keywords that occur inside a lower-case token.
KeywordsIn(tok) ==
    CASE tok = "contact"        -> {"contact"}
      [] tok = "representative" -> {"representative"}
      [] tok = "help"           -> {"help"}
      [] tok = "here"           -> {"here"}
      [] tok = "there"          -> {"here"}
      [] tok = "support"        -> {"support"}
      [] OTHER                  -> {}

\* word in answer.lower()
Contains(answer, word) ==
    \E i \in 1..Len(answer) : word \in KeywordsIn(LowerTok(answer[i]))

\* '?' in answer
HasQuestionMark(answer) == \E i \in 1..Len(answer) : answer[i] = "?"

\* len(answer.split())
WordCount(answer) ==
    Cardinality({i \in 1..Len(answer) :
                    /\ answer[i] \notin Whitespace
                    /\ (i = 1 \/ answer[i - 1] \in Whitespace)})

clarifying_questions ==
    << <<"\n", "\n", "Does this", " ", "help", " ",
         "clarify things, or would you like me to explain any specific part in more detail", "?">>,
       <<"\n", "\n", "Is", " ", "there", " ",
         "a specific aspect you'd like me to break down further", "?">>,
       <<"\n", "\n", "Do you have any questions about these steps", "?">> >>

EscalationOffer ==
    <<"\n", "\n", "If you'd prefer, I can provide", " ", "contact", " ",
      "information for our customer service team who can assist you directly.">>

EncouragementPlain ==
    <<" ", "This", " ", "will", " ", "get", " ", "easier.">>

Encouragement ==
    <<" ", "I'm", " ", "here", " ", "to", " ", "help", " ", "make", " ",
      "this", " ", "easier", " ", "for", " ", "you.">>

\* self.frustration_tracker.get(session_id, 0)
get_frustration_level(tracker, session_id) ==
    IF session_id \in DOMAIN tracker THEN tracker[session_id] ELSE 0

SetCountAll(tracker, session_id, count) ==
    [s \in DOMAIN tracker \cup {session_id} |-> count]

\* self.frustration_tracker[session_id] = count
SetCount(tracker, session_id, count) ==
    [s \in DOMAIN tracker \cup {session_id} |->
        IF s = session_id THEN count ELSE tracker[s]]

ResetKeepsEntry(tracker, session_id) == tracker

\* reset_frustration_tracker: del the entry if there is one
reset_frustration_tracker(tracker, session_id) ==
    [s \in DOMAIN tracker \ {session_id} |-> tracker[s]]

TracksEveryEmotion(emotion, context) ==
    context.present /\ context.session_id # ""

\* emotion == 'Frustrated' and context, then a truthy session_id
TracksFrustration(emotion, context) ==
    emotion = "Frustrated" /\ context.present /\ context.session_id # ""

PromptWithoutTracking(tracker, emotion, context) ==
    [tracker |-> tracker,
     prompt  |-> [template  |-> IF emotion \in TargetSet THEN emotion ELSE "Neutral",
                  directive |-> FALSE]]

\* _get_emotion_prompt: the prompt of the emotion (Neutral's for an unknown
\* label); a Frustrated call with a session counts first, and from the
\* second count on the prompt carries the escalation directive.
_get_emotion_prompt(tracker, emotion, context) ==
    LET tracked == TracksFrustration(emotion, context)
        frustration_count ==
            IF tracked THEN get_frustration_level(tracker, context.session_id) + 1 ELSE 0
    IN  [tracker |-> IF tracked
                     THEN SetCount(tracker, context.session_id, frustration_count)
                     ELSE tracker,
         prompt  |-> [template  |-> IF emotion \in TargetSet THEN emotion ELSE "Neutral",
                      directive |-> tracked /\ frustration_count >= 2]]

FirstVariantAlways(answer, emotion, message) ==
    IF emotion = "Confused" /\ ~HasQuestionMark(answer)
    THEN answer \o clarifying_questions[1]
    ELSE answer

\* lines 177-186
ConfusedEnhancement(answer, emotion, message) ==
    IF emotion = "Confused" /\ ~HasQuestionMark(answer)
    THEN answer \o clarifying_questions[(Len(message) % Len(clarifying_questions)) + 1]
    ELSE answer

NoEscalationOffer(tracker, answer, emotion, context) == answer

EscalateFromFirstCall(tracker, answer, emotion, context) ==
    IF /\ TracksFrustration(emotion, context)
       /\ get_frustration_level(tracker, context.session_id) >= 1
       /\ ~Contains(answer, "contact")
       /\ ~Contains(answer, "representative")
    THEN answer \o EscalationOffer
    ELSE answer

\* lines 188-193
FrustratedEnhancement(tracker, answer, emotion, context) ==
    IF /\ TracksFrustration(emotion, context)
       /\ get_frustration_level(tracker, context.session_id) >= 2
       /\ ~Contains(answer, "contact")
       /\ ~Contains(answer, "representative")
    THEN answer \o EscalationOffer
    ELSE answer

\* lines 195-198
SadEnhancement(answer, emotion) ==
    IF /\ emotion = "Sad"
       /\ WordCount(answer) > SadWordLimit
       /\ ~\E word \in {"help", "here", "support"} : Contains(answer, word)
    THEN answer \o Encouragement
    ELSE answer

_add_emotion_enhancements(tracker, answer, emotion, message, context) ==
    SadEnhancement(
        FrustratedEnhancement(tracker,
            ConfusedEnhancement(answer, emotion, message), emotion, context),
        emotion)

NoPrefix(emotion) == <<>>

_simple_emotion_prefix(emotion) ==
    CASE emotion = "Happy"      -> <<"Great to hear from you!", " ">>
      [] emotion = "Neutral"    -> <<>>
      [] emotion = "Confused"   -> <<"Let me help clarify that.", " ">>
      [] emotion = "Frustrated" -> <<"I understand this is frustrating.", " ">>
      [] emotion = "Sad"        -> <<"I'm sorry you're experiencing this.", " ">>
      [] OTHER                  -> <<>>

AdjustResultRetry(model, tracker, emotion_label, base_answer, message, context, ro) ==
    IF ~model
    THEN [tracker |-> tracker, prompt |-> NoPrompt, calls |-> 0,
          output |-> base_answer]
    ELSE LET p == _get_emotion_prompt(tracker, emotion_label, context)
         IN  [tracker |-> p.tracker, prompt |-> p.prompt,
              calls |-> IF ro.kind = "text" THEN 1 ELSE 2,
              output |->
                  IF ro.kind = "text"
                  THEN _add_emotion_enhancements(p.tracker, Strip(ro.text),
                                                 emotion_label, message, context)
                  ELSE _simple_emotion_prefix(emotion_label) \o base_answer]

\* What one call of adjust_response_based_on_emotion does and returns.
AdjustResult(model, tracker, emotion_label, base_answer, message, context, ro) ==
    IF ~model
    THEN [tracker |-> tracker, prompt |-> NoPrompt, calls |-> 0,
          output |-> base_answer]
    ELSE LET p == _get_emotion_prompt(tracker, emotion_label, context)
         IN  [tracker |-> p.tracker, prompt |-> p.prompt, calls |-> 1,
              output |->
                  IF ro.kind = "text"
                  THEN _add_emotion_enhancements(p.tracker, Strip(ro.text),
                                                 emotion_label, message, context)
                  ELSE _simple_emotion_prefix(emotion_label) \o base_answer]

\* EmotionResponseAdapter.__init__; the other components stay idle.
InitAdapter ==
    /\ a_gemini_model \in BOOLEAN
    /\ frustration_tracker = EmptyTracker
    /\ AdapterIdle
    /\ ConcurrencyIdle
    /\ LoggerIdle
    /\ emotion_pipeline = FALSE
    /\ use_gemini_fallback = FALSE
    /\ gemini_model = FALSE
    /\ confidence_threshold = Fin(3, 10)
    /\ DetectorIdle
    /\ has_gemini = FALSE
    /\ GenerateIdle

\* adjust_response_based_on_emotion, called and run to its return.  The
\* counter is capped at MaxCount.
Adjust(emotion_label, base_answer, message, context, ro) ==
    /\ a_pc = "idle"
    /\ (a_gemini_model /\ TracksFrustration(emotion_label, context)) =>
           get_frustration_level(frustration_tracker, context.session_id) < MaxCount
    /\ LET r == AdjustResult(a_gemini_model, frustration_tracker, emotion_label,
                             base_answer, message, context, ro)
       IN  /\ frustration_tracker' = r.tracker
           /\ a_prompt' = r.prompt
           /\ a_calls' = r.calls
           /\ a_output' = r.output
    /\ a_pc' = "returned"
    /\ a_op' = "adjust"
    /\ a_emotion' = emotion_label
    /\ a_base_answer' = base_answer
    /\ a_user_message' = message
    /\ a_context' = context
    /\ a_before' = frustration_tracker
    /\ a_reply' = ro
    /\ UNCHANGED <<a_gemini_model, a_session, a_level, a_raised>>
    /\ UNCHANGED <<dvars, gvars, cvars, lvars>>

\* reset_frustration_tracker(session_id)
Reset(session_id) ==
    /\ a_pc = "idle"
    /\ frustration_tracker' = reset_frustration_tracker(frustration_tracker, session_id)
    /\ a_pc' = "returned"
    /\ a_op' = "reset"
    /\ a_session' = session_id
    /\ a_before' = frustration_tracker
    /\ UNCHANGED <<a_gemini_model, a_emotion, a_base_answer, a_user_message, a_context,
                   a_prompt, a_calls, a_reply, a_output, a_level, a_raised>>
    /\ UNCHANGED <<dvars, gvars, cvars, lvars>>

\* get_frustration_level(session_id)
GetLevel(session_id) ==
    /\ a_pc = "idle"
    /\ a_level' = get_frustration_level(frustration_tracker, session_id)
    /\ a_pc' = "returned"
    /\ a_op' = "get_level"
    /\ a_session' = session_id
    /\ a_before' = frustration_tracker
    /\ UNCHANGED <<a_gemini_model, frustration_tracker, a_emotion, a_base_answer,
                   a_user_message, a_context, a_prompt, a_calls, a_reply, a_output,
                   a_raised>>
    /\ UNCHANGED <<dvars, gvars, cvars, lvars>>

\* The caller takes the result; the adapter is ready for the next call.
AdapterReturn ==
    /\ a_pc = "returned"
    /\ a_pc' = "idle"
    /\ a_op' = ""
    /\ a_emotion' = ""
    /\ a_base_answer' = <<>>
    /\ a_user_message' = <<>>
    /\ a_context' = NoContext
    /\ a_session' = ""
    /\ a_before' = EmptyTracker
    /\ a_prompt' = NoPrompt
    /\ a_calls' = 0
    /\ a_reply' = NoRewrite
    /\ a_output' = <<>>
    /\ a_level' = 0
    /\ a_raised' = FALSE
    /\ UNCHANGED <<a_gemini_model, frustration_tracker>>
    /\ UNCHANGED <<dvars, gvars, cvars, lvars>>

NextAdapter ==
    \/ /\ a_pc = "idle"
       /\ \E emotion_label \in Emotions, base_answer \in BaseAnswers,
             message \in Messages, context \in Contexts,
             ro \in (IF a_gemini_model THEN RewriteOutcomes ELSE {NoRewrite}) :
              Adjust(emotion_label, base_answer, message, context, ro)
    \/ \E session_id \in Sessions : Reset(session_id)
    \/ \E session_id \in Sessions : GetLevel(session_id)
    \/ AdapterReturn

SpecAdapter == InitAdapter /\ [][NextAdapter]_vars

(***************************************************************************)
(* Properties of the adapter                                               *)
(***************************************************************************)
AdjustReturned == a_pc = "returned" /\ a_op = "adjust"

\* The call was a Frustrated adaptation for session s.
FrustratedFor(s) ==
    /\ AdjustReturned
    /\ a_emotion = "Frustrated"
    /\ a_context = [present |-> TRUE, session_id |-> s]

\* The count a tracker holds for s, 0 without an entry.
Count(tracker, s) == IF s \in DOMAIN tracker THEN tracker[s] ELSE 0

\* The remote call of the adaptation failed.
RemoteFailed == a_reply.kind \in {"raises", "no_text"}

\* C15: every Frustrated adaptation with a session id raises the session's
\* frustration level by exactly 1, for every adapter configuration and
\* remote outcome; a Happy adaptation for the session leaves it unchanged.
C15_FrustratedCountsOnce ==
    \A s \in Sessions :
        /\ FrustratedFor(s) =>
               Count(frustration_tracker, s) = Count(a_before, s) + 1
        /\ (AdjustReturned /\ a_emotion = "Happy" /\ a_context.session_id = s) =>
               Count(frustration_tracker, s) = Count(a_before, s)

\* C16: after reset the session has level 0 and no entry, a reset of an
\* untracked session changes nothing, and get_level returns the count
\* (0 when untracked) without creating an entry.
C16_ResetAndLevel ==
    \A s \in Sessions :
        /\ (a_pc = "returned" /\ a_op = "reset" /\ a_session = s) =>
               /\ s \notin DOMAIN frustration_tracker
               /\ Count(frustration_tracker, s) = 0
               /\ s \notin DOMAIN a_before => frustration_tracker = a_before
               /\ \A o \in Sessions \ {s} :
                      /\ o \in DOMAIN frustration_tracker <=> o \in DOMAIN a_before
                      /\ Count(frustration_tracker, o) = Count(a_before, o)
        /\ (a_pc = "returned" /\ a_op = "get_level" /\ a_session = s) =>
               /\ a_level = Count(a_before, s)
               /\ frustration_tracker = a_before

C16_Witness ==
    /\ a_pc = "returned"
    /\ a_op = "reset"
    /\ a_session = "A"
    /\ Count(a_before, "A") = 2
    /\ "A" \notin DOMAIN frustration_tracker

HasContactWord(text) == Contains(text, "contact") \/ Contains(text, "representative")

\* C17: the third consecutive Frustrated adaptation of a session that
\* started untracked (two counted before it), with the remote rewrite
\* succeeding, returns text that contains "contact" or "representative".
C17_ThirdCallEscalates ==
    \A s \in Sessions :
        (FrustratedFor(s) /\ a_reply.kind = "text" /\ Count(a_before, s) = 2) =>
            HasContactWord(a_output)

C17_Witness ==
    /\ FrustratedFor("A")
    /\ Count(a_before, "A") = 2
    /\ Count(frustration_tracker, "A") = 3
    /\ a_reply = [kind |-> "text", text |-> <<"ok">>]
    /\ a_output = <<"ok">> \o EscalationOffer

QuestionMarks(text) == Cardinality({i \in 1..Len(text) : text[i] = "?"})

\* C18: for Confused and a rewritten answer without a question mark the
\* output is the answer followed by the clarifying question at index
\* len(user_message) mod 3, so it has exactly one question mark; with a
\* question mark in the answer nothing is appended.
C18_ClarifyingQuestion ==
    (AdjustReturned /\ a_emotion = "Confused" /\ a_reply.kind = "text") =>
        LET answer == Strip(a_reply.text)
        IN  IF QuestionMarks(answer) = 0
            THEN /\ a_output = answer \o clarifying_questions[(Len(a_user_message) % 3) + 1]
                 /\ QuestionMarks(a_output) = 1
            ELSE a_output = answer

C18_Witness ==
    /\ AdjustReturned
    /\ a_emotion = "Confused"
    /\ Len(a_user_message) = 2
    /\ a_reply = [kind |-> "text", text |-> <<"ok">>]
    /\ a_output = <<"ok">> \o clarifying_questions[3]

\* The fixed prefix of each emotion, empty for Neutral and unknown labels.
FixedPrefix(emotion) ==
    IF emotion = "Happy" THEN <<"Great to hear from you!", " ">>
    ELSE IF emotion = "Confused" THEN <<"Let me help clarify that.", " ">>
    ELSE IF emotion = "Frustrated" THEN <<"I understand this is frustrating.", " ">>
    ELSE IF emotion = "Sad" THEN <<"I'm sorry you're experiencing this.", " ">>
    ELSE <<>>

\* C19 as stated: the adaptation never raises, and when the remote model
\* is unavailable, the remote call raises or the reply has no text, it
\* returns the fixed prefix of the emotion followed by the base answer.
C19_PrefixOnEveryFailure ==
    (AdjustReturned /\ (~a_gemini_model \/ RemoteFailed)) =>
        /\ ~a_raised
        /\ a_output = FixedPrefix(a_emotion) \o a_base_answer

\* C19, amended: the adaptation never raises; without a remote model it
\* returns the base answer unchanged, with no prefix and no remote call;
\* when the remote call raises or the reply has no text it returns the
\* fixed prefix of the emotion followed by the base answer.
C19_PrefixOnRemoteFailure ==
    AdjustReturned =>
        /\ ~a_raised
        /\ ~a_gemini_model => (a_output = a_base_answer /\ a_calls = 0)
        /\ (a_gemini_model /\ RemoteFailed) =>
               a_output = FixedPrefix(a_emotion) \o a_base_answer

C19_Witness ==
    /\ AdjustReturned
    /\ a_gemini_model
    /\ a_emotion = "Sad"
    /\ a_reply.kind = "raises"
    /\ a_base_answer = <<"base">>
    /\ a_output = <<"I'm sorry you're experiencing this.", " ", "base">>

\* C20 as stated: a Frustrated adaptation whose remote call fails leaves
\* the session's counter at the value it had before the adaptation.
C20_FailureKeepsCounter ==
    \A s \in Sessions :
        (FrustratedFor(s) /\ RemoteFailed) =>
            Count(frustration_tracker, s) = Count(a_before, s)

\* C20, amended: a Frustrated adaptation whose remote call fails leaves the
\* session's counter one higher than before the adaptation (the count is
\* taken before the remote call and is not rolled back), and the other
\* sessions' counters as they were.
C20_FailureKeepsIncrement ==
    \A s \in Sessions :
        (FrustratedFor(s) /\ RemoteFailed) =>
            /\ Count(frustration_tracker, s) = Count(a_before, s) + 1
            /\ \A o \in Sessions \ {s} :
                   Count(frustration_tracker, o) = Count(a_before, o)

C20_Witness ==
    /\ FrustratedFor("A")
    /\ a_reply.kind = "raises"
    /\ Count(a_before, "A") = 1
    /\ Count(frustration_tracker, "A") = 2

(***************************************************************************)
(* EmotionResponseAdapter called from several threads                      *)
(*                                                                         *)
(* The adapter has no lock.  A thread switch can fall between any two      *)
(* statements of a call, so a call is a sequence of steps: the read of     *)
(* the counter (line 160), its write-back (line 161), the remote call      *)
(* (line 83), the post-processing that reads the counter again (line       *)
(* 191); reset tests the key (line 215) and then deletes it (line 216).    *)
(* A remote model is configured.  c_solo records, per session, the         *)
(* counter that the session's own calls give when they run one after the   *)
(* other.                                                                  *)
(***************************************************************************)
CEmotions == {"Frustrated", "Happy"}
CReplies ==
    { [kind |-> "text", text |-> <<"ok">>],
      [kind |-> "text", text |-> <<"Contact", " ", "us">>],
      [kind |-> "raises", text |-> <<>>] }
CBaseAnswer == <<"base">>
CMessage    == <<>>

\* The history c_solo: one more Frustrated adaptation of the session, a
\* reset of the session, and the level it gives.
SoloLevel(solo, s) == IF s \in DOMAIN solo THEN solo[s] ELSE 0
SoloCounted(solo, s) ==
    [x \in DOMAIN solo \cup {s} |-> IF x = s THEN SoloLevel(solo, s) + 1 ELSE solo[x]]
SoloReset(solo, s) == [x \in DOMAIN solo \ {s} |-> solo[x]]

\* The session a thread keeps to when the workload is pinned.
PinnedSession(t) == IF t = "t1" THEN "A" ELSE "B"

\* The sessions a thread calls for: its own when the workload is pinned,
\* else the one session all threads share.
WorkloadSessions(t) == IF c_pinned THEN {PinnedSession(t)} ELSE {"A"}

\* conversation_context of a thread's call
CContext(t) == [present |-> TRUE, session_id |-> c_session[t]]

InitThreads ==
    /\ a_gemini_model = TRUE
    /\ frustration_tracker = EmptyTracker
    /\ AdapterIdle
    /\ ThreadsIdle
    /\ c_solo = EmptyTracker
    /\ emotion_pipeline = FALSE
    /\ use_gemini_fallback = FALSE
    /\ gemini_model = FALSE
    /\ confidence_threshold = Fin(3, 10)
    /\ DetectorIdle
    /\ has_gemini = FALSE
    /\ GenerateIdle
    /\ LoggerIdle

\* All threads call for the same session.
InitConcurrent == InitThreads /\ c_pinned = FALSE

\* Each thread keeps to its own session.
InitIsolated == InitThreads /\ c_pinned = TRUE

\* What a step leaves alone: the other components and the sequential
\* adapter call record.
OthersUnchanged ==
    /\ UNCHANGED <<a_gemini_model, a_pc, acall, c_pinned>>
    /\ UNCHANGED <<dvars, gvars, lvars>>

\* A thread enters adjust_response_based_on_emotion (lines 60-66).
CStartAdjust(t, emotion_label, session_id) ==
    /\ c_pc[t] = "idle"
    /\ session_id \in WorkloadSessions(t)
    /\ get_frustration_level(frustration_tracker, session_id) < MaxCount
    /\ SoloLevel(c_solo, session_id) < MaxCount
    /\ c_pc' = [c_pc EXCEPT ![t] = "prompt"]
    /\ c_op' = [c_op EXCEPT ![t] = "adjust"]
    /\ c_emotion' = [c_emotion EXCEPT ![t] = emotion_label]
    /\ c_session' = [c_session EXCEPT ![t] = session_id]
    /\ UNCHANGED <<frustration_tracker, c_count, c_directive, c_level, c_reply,
                   c_output, c_raised, c_solo>>
    /\ OthersUnchanged

\* _get_emotion_prompt up to line 160: the counter is read into the local
\* frustration_count; any other emotion goes on to the remote call.  The
\* counter is capped at MaxCount.
CReadCount(t) ==
    /\ c_pc[t] = "prompt"
    /\ get_frustration_level(frustration_tracker, c_session[t]) < MaxCount
    /\ IF TracksFrustration(c_emotion[t], CContext(t))
       THEN /\ c_count' = [c_count EXCEPT ![t] =
                    get_frustration_level(frustration_tracker, c_session[t]) + 1]
            /\ c_pc' = [c_pc EXCEPT ![t] = "write"]
       ELSE /\ c_pc' = [c_pc EXCEPT ![t] = "remote"]
            /\ UNCHANGED c_count
    /\ UNCHANGED <<frustration_tracker, c_op, c_emotion, c_session, c_directive,
                   c_level, c_reply, c_output, c_raised, c_solo>>
    /\ OthersUnchanged

\* _get_emotion_prompt lines 161-166: the local count is written back and
\* decides the directive.
CWriteCount(t) ==
    /\ c_pc[t] = "write"
    /\ frustration_tracker' = SetCount(frustration_tracker, c_session[t], c_count[t])
    /\ c_directive' = [c_directive EXCEPT ![t] = c_count[t] >= 2]
    /\ c_solo' = SoloCounted(c_solo, c_session[t])
    /\ c_pc' = [c_pc EXCEPT ![t] = "remote"]
    /\ UNCHANGED <<c_op, c_emotion, c_session, c_count, c_level, c_reply,
                   c_output, c_raised>>
    /\ OthersUnchanged

\* The remote call of the thread completes (lines 83-84, 97-100).
CRemote(t, ro) ==
    /\ c_pc[t] = "remote"
    /\ c_reply' = [c_reply EXCEPT ![t] = ro]
    /\ IF ro.kind = "text"
       THEN /\ c_pc' = [c_pc EXCEPT ![t] = "enhance"]
            /\ UNCHANGED c_output
       ELSE /\ c_pc' = [c_pc EXCEPT ![t] = "returned"]
            /\ c_output' = [c_output EXCEPT ![t] =
                    _simple_emotion_prefix(c_emotion[t]) \o CBaseAnswer]
    /\ UNCHANGED <<frustration_tracker, c_op, c_emotion, c_session, c_count,
                   c_directive, c_level, c_raised, c_solo>>
    /\ OthersUnchanged

\* _add_emotion_enhancements (lines 87-95): reads the counter as it is now.
CEnhance(t) ==
    /\ c_pc[t] = "enhance"
    /\ c_level' = [c_level EXCEPT ![t] =
            IF TracksFrustration(c_emotion[t], CContext(t))
            THEN get_frustration_level(frustration_tracker, c_session[t])
            ELSE 0]
    /\ c_output' = [c_output EXCEPT ![t] =
            _add_emotion_enhancements(frustration_tracker, Strip(c_reply[t].text),
                                      c_emotion[t], CMessage, CContext(t))]
    /\ c_pc' = [c_pc EXCEPT ![t] = "returned"]
    /\ UNCHANGED <<frustration_tracker, c_op, c_emotion, c_session, c_count,
                   c_directive, c_reply, c_raised, c_solo>>
    /\ OthersUnchanged

\* A thread enters reset_frustration_tracker.
CStartReset(t, session_id) ==
    /\ c_pc[t] = "idle"
    /\ session_id \in WorkloadSessions(t)
    /\ c_pc' = [c_pc EXCEPT ![t] = "reset_check"]
    /\ c_op' = [c_op EXCEPT ![t] = "reset"]
    /\ c_session' = [c_session EXCEPT ![t] = session_id]
    /\ UNCHANGED <<frustration_tracker, c_emotion, c_count, c_directive, c_level,
                   c_reply, c_output, c_raised, c_solo>>
    /\ OthersUnchanged

\* line 215: if session_id in self.frustration_tracker
CResetCheck(t) ==
    /\ c_pc[t] = "reset_check"
    /\ IF c_session[t] \in DOMAIN frustration_tracker
       THEN /\ c_pc' = [c_pc EXCEPT ![t] = "reset_del"]
            /\ UNCHANGED c_solo
       ELSE /\ c_pc' = [c_pc EXCEPT ![t] = "returned"]
            /\ c_solo' = SoloReset(c_solo, c_session[t])
    /\ UNCHANGED <<frustration_tracker, c_op, c_emotion, c_session, c_count,
                   c_directive, c_level, c_reply, c_output, c_raised>>
    /\ OthersUnchanged

\* line 216: del self.frustration_tracker[session_id]; KeyError when another
\* thread removed the key after the test.
CResetDel(t) ==
    /\ c_pc[t] = "reset_del"
    /\ IF c_session[t] \in DOMAIN frustration_tracker
       THEN /\ frustration_tracker' =
                    reset_frustration_tracker(frustration_tracker, c_session[t])
            /\ UNCHANGED c_raised
       ELSE /\ c_raised' = [c_raised EXCEPT ![t] = TRUE]
            /\ UNCHANGED frustration_tracker
    /\ c_solo' = SoloReset(c_solo, c_session[t])
    /\ c_pc' = [c_pc EXCEPT ![t] = "returned"]
    /\ UNCHANGED <<c_op, c_emotion, c_session, c_count, c_directive, c_level,
                   c_reply, c_output>>
    /\ OthersUnchanged

\* get_frustration_level: one read.
CGetLevel(t, session_id) ==
    /\ c_pc[t] = "idle"
    /\ session_id \in WorkloadSessions(t)
    /\ c_level' = [c_level EXCEPT ![t] =
            get_frustration_level(frustration_tracker, session_id)]
    /\ c_pc' = [c_pc EXCEPT ![t] = "returned"]
    /\ c_op' = [c_op EXCEPT ![t] = "get_level"]
    /\ c_session' = [c_session EXCEPT ![t] = session_id]
    /\ UNCHANGED <<frustration_tracker, c_emotion, c_count, c_directive, c_reply,
                   c_output, c_raised, c_solo>>
    /\ OthersUnchanged

\* The caller of the thread takes the result.
CReturn(t) ==
    /\ c_pc[t] = "returned"
    /\ c_pc' = [c_pc EXCEPT ![t] = "idle"]
    /\ c_op' = [c_op EXCEPT ![t] = ""]
    /\ c_emotion' = [c_emotion EXCEPT ![t] = ""]
    /\ c_session' = [c_session EXCEPT ![t] = ""]
    /\ c_count' = [c_count EXCEPT ![t] = 0]
    /\ c_directive' = [c_directive EXCEPT ![t] = FALSE]
    /\ c_level' = [c_level EXCEPT ![t] = 0]
    /\ c_reply' = [c_reply EXCEPT ![t] = NoRewrite]
    /\ c_output' = [c_output EXCEPT ![t] = <<>>]
    /\ c_raised' = [c_raised EXCEPT ![t] = FALSE]
    /\ UNCHANGED <<frustration_tracker, c_solo>>
    /\ OthersUnchanged

NextConcurrent ==
    \E t \in Threads :
        \/ \E emotion_label \in CEmotions, session_id \in Sessions :
               CStartAdjust(t, emotion_label, session_id)
        \/ CReadCount(t)
        \/ CWriteCount(t)
        \/ \E ro \in CReplies : CRemote(t, ro)
        \/ CEnhance(t)
        \/ \E session_id \in Sessions : CStartReset(t, session_id)
        \/ CResetCheck(t)
        \/ CResetDel(t)
        \/ \E session_id \in Sessions : CGetLevel(t, session_id)
        \/ CReturn(t)

SpecConcurrent == InitConcurrent /\ [][NextConcurrent]_vars
SpecIsolated   == InitIsolated /\ [][NextConcurrent]_vars

(***************************************************************************)
(* Properties of the adapter under concurrent calls                        *)
(***************************************************************************)
\* Thread t is in, or has returned from, a Frustrated adaptation and has
\* written its count.
CountedFrustrated(t) ==
    /\ c_op[t] = "adjust"
    /\ c_emotion[t] = "Frustrated"
    /\ c_pc[t] \in {"remote", "enhance", "returned"}

\* Thread t returned from a Frustrated adaptation whose rewrite succeeded.
RewrittenFrustrated(t) ==
    /\ CountedFrustrated(t)
    /\ c_pc[t] = "returned"
    /\ c_reply[t].kind = "text"

\* The returned text of thread t ends with the escalation offer.
OfferAppended(t) == c_output[t] = Strip(c_reply[t].text) \o EscalationOffer

\* C21: with the calls for sessions A and B on different threads, every
\* counter is the one the session's own calls give in sequence, whatever
\* the other thread does, and the directive, the escalation offer and the
\* level returned follow that counter alone.
C21_SessionsIsolated ==
    /\ \A s \in Sessions :
           /\ s \in DOMAIN frustration_tracker <=> s \in DOMAIN c_solo
           /\ Count(frustration_tracker, s) = SoloLevel(c_solo, s)
    /\ \A t \in Threads :
           /\ CountedFrustrated(t) =>
                  (c_directive[t] <=> SoloLevel(c_solo, c_session[t]) >= 2)
           /\ RewrittenFrustrated(t) =>
                  (OfferAppended(t) <=>
                      /\ SoloLevel(c_solo, c_session[t]) >= 2
                      /\ ~HasContactWord(c_reply[t].text))
           /\ (c_pc[t] = "returned" /\ c_op[t] = "get_level") =>
                  c_level[t] = SoloLevel(c_solo, c_session[t])
           /\ ~c_raised[t]

C21_Witness ==
    /\ c_pinned
    /\ RewrittenFrustrated("t1")
    /\ c_session["t1"] = "A"
    /\ c_count["t1"] = 2
    /\ OfferAppended("t1")
    /\ CountedFrustrated("t2")
    /\ c_pc["t2"] = "remote"
    /\ c_session["t2"] = "B"
    /\ Count(frustration_tracker, "B") = 1
    /\ Count(frustration_tracker, "A") = 2

\* C22: no two Frustrated adaptations of one session that run at the same
\* time hold the same incremented value between the read of the counter
\* and its write-back, so no update is lost.
C22_NoLostUpdate ==
    \A t, u \in Threads :
        (/\ t # u
         /\ c_pc[t] = "write"
         /\ c_pc[u] = "write"
         /\ c_session[t] = c_session[u]) =>
            c_count[t] # c_count[u]

\* C30: within one Frustrated adaptation the escalation offer is appended
\* only if the prompt of that call carried the directive, and a call whose
\* prompt carried it is post-processed with a counter >= 2, whatever the
\* other thread does for the same session meanwhile.
C30_DecisionsAgree ==
    \A t \in Threads :
        RewrittenFrustrated(t) =>
            /\ OfferAppended(t) => c_directive[t]
            /\ c_directive[t] => c_level[t] >= 2

(***************************************************************************)
(* Detector and adapter behind one sequential caller                       *)
(*                                                                         *)
(* One caller uses an EmotionDetector and an EmotionResponseAdapter; it    *)
(* starts a call of one only when the other is idle, and it leaves         *)
(* conversation_context at its default None.                               *)
(***************************************************************************)
InitPipeline ==
    /\ emotion_pipeline \in BOOLEAN
    /\ use_gemini_fallback \in BOOLEAN
    /\ gemini_model \in (IF use_gemini_fallback THEN BOOLEAN ELSE {FALSE})
    /\ confidence_threshold = Fin(3, 10)
    /\ DetectorIdle
    /\ a_gemini_model \in BOOLEAN
    /\ frustration_tracker = EmptyTracker
    /\ AdapterIdle
    /\ has_gemini = FALSE
    /\ GenerateIdle
    /\ ConcurrencyIdle
    /\ LoggerIdle

NextPipeline ==
    \/ /\ pc = "idle" /\ a_pc = "idle"
       /\ \E t \in Texts : Enter(t)
    \/ /\ pc = "hf"
       /\ \E lo \in LocalOutcomes : HfModel(lo)
    \/ /\ pc = "lowconf"
       /\ \E ro \in GeminiOutcomes : LowConfidenceFallback(ro)
    \/ /\ pc = "fallback"
       /\ \E ro \in GeminiOutcomes : GeminiOnly(ro)
    \/ DefaultFallback
    \/ Return
    \/ /\ pc = "idle" /\ a_pc = "idle"
       /\ \E emotion_label \in Emotions, base_answer \in BaseAnswers,
             message \in Messages,
             ro \in (IF a_gemini_model THEN RewriteOutcomes ELSE {NoRewrite}) :
              Adjust(emotion_label, base_answer, message, NoContext, ro)
    \/ AdapterReturn

SpecPipeline == InitPipeline /\ [][NextPipeline]_vars

\* C23: an invocation of detect_emotion issues at most one remote call on
\* every path and an invocation of adjust_response_based_on_emotion at most
\* one; a remote call that failed is the only one of its invocation.
C23_NoRetry ==
    /\ gemini_calls <= 1
    /\ a_calls <= 1
    /\ reply.invoked => gemini_calls = 1
    /\ a_reply.kind # "none" => a_calls = 1
    /\ ~a_gemini_model => a_calls = 0

\* The local classifier raised, the remote call was made once and failed.
C23_Witness ==
    /\ pc = "returned"
    /\ hf_result = [kind |-> "raised"]
    /\ reply.invoked
    /\ reply.raises
    /\ gemini_calls = 1
    /\ hf_calls = 1

(***************************************************************************)
(* AnalyticsLogger (backend/analytics_logger.py)                           *)
(*                                                                         *)
(* The log file is a sequence of lines, oldest first.  log_message         *)
(* appends json.dumps(entry); a line that is not JSON can be in the file   *)
(* from before, the constructor keeps an existing file.                    *)
(***************************************************************************)
MaxLogs == 3

\* limit = min(limit, 200), app.py line 707
RouteCap == 200

\* json.dumps(log_entry) + '\n' and a line json.loads rejects
Dumps(entry) == [json |-> TRUE, entry |-> entry]
BadLine == [json |-> FALSE, entry |-> [id |-> 0, session_id |-> ""]]

\* json.loads(line.strip()): the entry, or JSONDecodeError
Loads(line) == [ok |-> line.json, v |-> line.entry]

\* The limits callers pass: the route forwards any integer of the query
\* string, get_emotion_statistics passes 1000.
Limits == (-1..(MaxLogs + 1)) \cup {RouteCap, 1000}

Min(a, b) == IF a <= b THEN a ELSE b
Max(a, b) == IF a >= b THEN a ELSE b

\* lines[-limit:]
LastLines(lines, limit) ==
    LET n     == Len(lines)
        start == IF limit > 0 THEN Max(n - limit, 0) ELSE Min(0 - limit, n)
    IN  SubSeq(lines, start + 1, n)

\* for line in reversed(lines): append json.loads(line), skip bad lines
RECURSIVE ParseReversed(_)
ParseReversed(lines) ==
    IF lines = <<>> THEN <<>>
    ELSE LET last == lines[Len(lines)]
             rest == ParseReversed(SubSeq(lines, 1, Len(lines) - 1))
         IN  IF Loads(last).ok THEN <<Loads(last).v>> \o rest ELSE rest

get_recent_logs(enabled, lines, limit) ==
    IF ~enabled THEN <<>> ELSE ParseReversed(LastLines(lines, limit))

\* AnalyticsLogger.__init__; the other components stay idle.
InitLogger ==
    /\ l_enabled \in BOOLEAN
    /\ l_file \in {<<>>, <<BadLine>>}
    /\ l_clock = 0
    /\ l_pc = "idle"
    /\ l_op = ""
    /\ l_limit = 0
    /\ l_result = <<>>
    /\ emotion_pipeline = FALSE
    /\ use_gemini_fallback = FALSE
    /\ gemini_model = FALSE
    /\ confidence_threshold = Fin(3, 10)
    /\ DetectorIdle
    /\ has_gemini = FALSE
    /\ GenerateIdle
    /\ a_gemini_model = FALSE
    /\ frustration_tracker = EmptyTracker
    /\ AdapterIdle
    /\ ConcurrencyIdle

\* log_message: appends one line when enabled and nothing raises (lines
\* 79-116); the file is capped at MaxLogs entries.
LogMessage(session_id, fails) ==
    /\ l_pc = "idle"
    /\ l_clock < MaxLogs
    /\ IF l_enabled /\ ~fails
       THEN /\ l_file' = Append(l_file, Dumps([id |-> l_clock + 1, session_id |-> session_id]))
            /\ l_clock' = l_clock + 1
       ELSE UNCHANGED <<l_file, l_clock>>
    /\ l_pc' = "returned"
    /\ l_op' = "log_message"
    /\ UNCHANGED <<l_enabled, l_limit, l_result>>
    /\ UNCHANGED <<dvars, gvars, avars, cvars>>

\* get_recent_logs(limit), lines 118-147
GetRecentLogs(limit) ==
    /\ l_pc = "idle"
    /\ l_limit' = limit
    /\ l_result' = get_recent_logs(l_enabled, l_file, limit)
    /\ l_pc' = "returned"
    /\ l_op' = "get_recent_logs"
    /\ UNCHANGED <<l_enabled, l_file, l_clock>>
    /\ UNCHANGED <<dvars, gvars, avars, cvars>>

\* GET /api/analytics/recent?limit=raw, app.py lines 698-715
get_recent_analytics(raw) ==
    /\ l_pc = "idle"
    /\ l_limit' = Min(raw, RouteCap)
    /\ l_result' = get_recent_logs(l_enabled, l_file, Min(raw, RouteCap))
    /\ l_pc' = "returned"
    /\ l_op' = "get_recent_analytics"
    /\ UNCHANGED <<l_enabled, l_file, l_clock>>
    /\ UNCHANGED <<dvars, gvars, avars, cvars>>

\* The caller takes the result.
LoggerReturn ==
    /\ l_pc = "returned"
    /\ l_pc' = "idle"
    /\ l_op' = ""
    /\ l_limit' = 0
    /\ l_result' = <<>>
    /\ UNCHANGED <<l_enabled, l_file, l_clock>>
    /\ UNCHANGED <<dvars, gvars, avars, cvars>>

NextLogger ==
    \/ \E session_id \in Sessions, fails \in BOOLEAN : LogMessage(session_id, fails)
    \/ \E limit \in Limits : GetRecentLogs(limit)
    \/ \E raw \in Limits : get_recent_analytics(raw)
    \/ LoggerReturn

SpecLogger == InitLogger /\ [][NextLogger]_vars

\* C24: get_recent_logs(limit) returns at most `limit` entries for every
\* limit >= 0 the callers pass, 0 included, directly or through the route.
C24_AtMostLimit ==
    (/\ l_pc = "returned"
     /\ l_op \in {"get_recent_logs", "get_recent_analytics"}
     /\ l_limit >= 0) =>
        Len(l_result) <= l_limit

(***************************************************************************)
(* Further properties of the combined parse of generate                    *)
(***************************************************************************)
\* Index of the first line that begins with RESPONSE:, 0 if there is none.
FirstResponseLine(lines) ==
    IF \E i \in 1..Len(lines) : StartsWith(lines[i], "RESPONSE:")
    THEN CHOOSE i \in 1..Len(lines) :
             /\ StartsWith(lines[i], "RESPONSE:")
             /\ \A j \in 1..(i - 1) : ~StartsWith(lines[j], "RESPONSE:")
    ELSE 0

\* C25: once a line beginning with RESPONSE: has been seen, every later
\* line of the reply is appended to the response text after a newline,
\* whatever it contains, and changes neither the label nor the confidence.
C25_EveryLaterLineAppended ==
    LET lines == ReplyLinesOf(g_reply.text)
        k     == FirstResponseLine(lines)
        seek  == GenParseFrom(GenDefaults, SubSeq(lines, 1, k - 1), 1)
    IN  (CombinedReturned /\ ~g_request_rating /\ k > 0 /\ k < Len(lines)) =>
            /\ g_response_text =
                   Strip(JoinLines(<<AfterColon(lines[k])>> \o SubSeq(lines, k + 1, Len(lines))))
            /\ g_emotion_label = seek.emotion_label
            /\ g_emotion_confidence = seek.emotion_confidence

(***************************************************************************)
(* Further properties of the adapter, calls in sequence                    *)
(***************************************************************************)
\* C26: with a successful rewrite, a Frustrated adaptation appends the
\* escalation offer exactly when a session id is given, the session's
\* counter including this call's increment is >= 2 and the rewritten text
\* has neither "contact" nor "representative"; the prompt carries the
\* directive exactly under the same counter condition.
C26_EscalationExactly ==
    (AdjustReturned /\ a_emotion = "Frustrated" /\ a_reply.kind = "text") =>
        LET adapted == Strip(a_reply.text)
            counted == /\ a_context.present
                       /\ a_context.session_id # ""
                       /\ Count(a_before, a_context.session_id) + 1 >= 2
        IN  /\ a_output = (IF counted /\ ~HasContactWord(adapted)
                           THEN adapted \o EscalationOffer
                           ELSE adapted)
            /\ a_prompt.directive <=> counted

C26_Witness ==
    /\ FrustratedFor("A")
    /\ Count(a_before, "A") = 1
    /\ a_prompt.directive
    /\ a_reply = [kind |-> "text", text |-> <<"ok">>]
    /\ a_output = <<"ok">> \o EscalationOffer

\* C27: every tracked counter is an integer >= 1; an entry appears only
\* through a Frustrated adaptation of its session; no call other than the
\* reset of a session lowers the session's level or removes its entry.
C27_CounterLifeCycle ==
    \A s \in Sessions :
        /\ s \in DOMAIN frustration_tracker =>
               (frustration_tracker[s] \in Nat /\ frustration_tracker[s] >= 1)
        /\ a_pc = "returned" =>
               /\ (s \in DOMAIN frustration_tracker /\ s \notin DOMAIN a_before) =>
                      FrustratedFor(s)
               /\ ~(a_op = "reset" /\ a_session = s) =>
                      /\ Count(frustration_tracker, s) >= Count(a_before, s)
                      /\ s \in DOMAIN a_before => s \in DOMAIN frustration_tracker

C27_Witness ==
    /\ AdjustReturned
    /\ a_gemini_model
    /\ a_emotion = "Sad"
    /\ a_context = [present |-> TRUE, session_id |-> "A"]
    /\ Count(a_before, "A") = 2
    /\ Count(frustration_tracker, "A") = 2
    /\ "B" \notin DOMAIN frustration_tracker

\* C29: _add_emotion_enhancements applied to its own output, with the same
\* emotion, user message and counter, returns the text unchanged.
C29_EnhancementsIdempotent ==
    (AdjustReturned /\ a_reply.kind = "text" /\ a_emotion \in TargetSet) =>
        _add_emotion_enhancements(frustration_tracker, a_output, a_emotion,
                                  a_user_message, a_context) = a_output

C29_Witness ==
    /\ AdjustReturned
    /\ a_emotion = "Sad"
    /\ a_reply = [kind |-> "text", text |-> WordsText(SadWordLimit + 1)]
    /\ a_output = WordsText(SadWordLimit + 1) \o Encouragement

(***************************************************************************)
(* Further properties of the detector                                      *)
(***************************************************************************)
\* Position of a label in the fixed order of TARGET_EMOTIONS.
PositionOf(e) == CHOOSE i \in 1..Len(TARGET_EMOTIONS) : TARGET_EMOTIONS[i] = e

\* C28: the label of a local result has the greatest score, it is the
\* first label with that score in the order Happy, Neutral, Confused,
\* Frustrated, Sad, and confidence is its score; an all-zero distribution
\* gives Happy with confidence 0.
C28_FirstArgMax ==
    IsResult(hf_result) =>
        /\ hf_result.label \in TargetSet
        /\ hf_result.confidence = hf_result.scores[hf_result.label]
        /\ \A e \in TargetSet :
               /\ ~FLess(hf_result.scores[hf_result.label], hf_result.scores[e])
               /\ PositionOf(e) < PositionOf(hf_result.label) =>
                      FLess(hf_result.scores[e], hf_result.scores[hf_result.label])
        /\ AllZero(hf_result.scores) =>
               (hf_result.label = "Happy" /\ hf_result.confidence = Zero)

C28_Witness ==
    /\ IsResult(hf_result)
    /\ hf_result.label = "Neutral"
    /\ hf_result.confidence = Half
    /\ hf_result.scores["Confused"] = Half

====
